---- MODULE Spec2Model ----
\* Model of src/pybind/ceph_rest_api.py: the route compiler
\* (generate_url_and_params), the catalog build (api_setup), the discovery
\* fallback (show_human_help) and the request handler (handler).
\*
\* Python strings that the code inspects character by character (URLs,
\* prefixes, catalog keys, permission strings) are sequences of one-character
\* strings; strings the code only compares or passes on are TLA+ strings.
EXTENDS Integers, Sequences, FiniteSets, TLC

VARIABLES
    \* generate_url_and_params, one descriptor at a time
    cflavor, csig, ci, curl, cparams, cpc,
    \* api_setup
    spc, sigdict, osd_sigdict, osdtodo, osdkey, todo, methods, methodorder,
    urls, rules, monkeys,
    \* handler
    hpc, req, ep, fmt, valid, reason, prefix, pgid, target, ui, found, exc,
    argdict, resp, submits, sent, reply, prevfound, repeated

compilevars == <<cflavor, csig, ci, curl, cparams, cpc>>
setupvars == <<spc, sigdict, osd_sigdict, osdtodo, osdkey, todo, methods,
               methodorder, urls, rules, monkeys>>
handlervars == <<hpc, req, ep, fmt, valid, reason, prefix, pgid, target, ui,
                 found, exc, argdict, resp, submits, sent, reply, prevfound,
                 repeated>>
vars == <<compilevars, setupvars, handlervars>>

----------------------------------------------------------------------------
\* Bounds of the model.

\* longest signature handed to the step-wise route compiler
MaxSigLen == 3
\* most descriptors in the mon catalog / in the osd catalog of a catalog build
MaxMon == 2
MaxOsd == 1
\* most query parameters of a request
MaxArgs == 1

----------------------------------------------------------------------------
\* Python string primitives.

NONE == "None"

\* s.startswith(p)
StartsWith(s, p) == Len(p) <= Len(s) /\ SubSeq(s, 1, Len(p)) = p

\* k in s, for a one-character k
HasChar(s, k) == \E i \in 1..Len(s) : s[i] = k

RECURSIVE Join(_, _)
\* sep.join(parts)
Join(parts, sep) ==
    IF parts = <<>> THEN <<>>
    ELSE IF Len(parts) = 1 THEN parts[1]
    ELSE parts[1] \o sep \o Join(Tail(parts), sep)

RECURSIVE Split(_, _)
\* s.split(ch), for a one-character ch
Split(s, ch) ==
    IF \A i \in 1..Len(s) : s[i] # ch THEN <<s>>
    ELSE LET k == CHOOSE i \in 1..Len(s) :
                      s[i] = ch /\ \A j \in 1..(i - 1) : s[j] # ch
         IN <<SubSeq(s, 1, k - 1)>> \o Split(SubSeq(s, k + 1, Len(s)), ch)

RECURSIVE LStrip(_)
LStrip(s) == IF s # <<>> /\ s[1] = " " THEN LStrip(Tail(s)) ELSE s

RECURSIVE RStrip(_)
RStrip(s) ==
    IF s # <<>> /\ s[Len(s)] = " " THEN RStrip(SubSeq(s, 1, Len(s) - 1)) ELSE s

\* s.strip()
Strip(s) == RStrip(LStrip(s))

RECURSIVE Replace(_, _)
\* s.replace(pat, '')
Replace(s, pat) ==
    IF s = <<>> THEN <<>>
    ELSE IF StartsWith(s, pat) THEN Replace(SubSeq(s, Len(pat) + 1, Len(s)), pat)
    ELSE <<s[1]>> \o Replace(Tail(s), pat)

\* s[n:]
From(s, n) == SubSeq(s, n + 1, Len(s))

\* parts[n:]
Drop(parts, n) == SubSeq(parts, n + 1, Len(parts))

----------------------------------------------------------------------------
\* Words of the catalogs.

W_osd == <<"o", "s", "d">>
W_stat == <<"s", "t", "a", "t">>
W_set == <<"s", "e", "t">>
W_st == <<"s", "t">>
W_pg == <<"p", "g">>
W_ver == <<"v", "e", "r">>
W_tell == <<"t", "e", "l", "l">>
W_flag == <<"-", "-", "f">>
W_query == <<"q">>
W_cmd == <<"c", "m", "d">>

\* Descriptor names.
N_prefix == <<"p", "r", "e", "f", "i", "x">>
N_target == <<"t", "a", "r", "g", "e", "t">>
N_pgid == <<"p", "g", "i", "d">>
N_help == <<"h", "e", "l", "p">>
N_cmd == W_cmd
N_key == <<"k">>
N_n == <<"n">>

DEFAULT_BASEURL == <<"/", "a", "p", "i", "/", "v", "0", ".", "1">>

\* glob.baseurl: no restapi_base_url in the configuration
baseurl == DEFAULT_BASEURL

----------------------------------------------------------------------------
\* Argument descriptors (ceph_argparse argdesc): t the type, name, req, and the
\* instance's prefix (CephPrefix) or strings (CephChoices).

Prefix(w) ==
    [t |-> "CephPrefix", name |-> N_prefix, req |-> TRUE, prefix |-> w,
     strings |-> <<>>]

Choices(n, r, ss) ==
    [t |-> "CephChoices", name |-> n, req |-> r, prefix |-> <<>>, strings |-> ss]

Param(ty, n, r) ==
    [t |-> ty, name |-> n, req |-> r, prefix |-> <<>>, strings |-> <<>>]

\* str(desc.instance) of a CephChoices: its strings joined by '|'
InstanceStr(desc) == Join(desc.strings, <<"|">>)

\* parse_funcsig(['tell', {'name':'target', 'type':'CephOsdName'}])
TellSig == <<Prefix(W_tell), Param("CephOsdName", N_target, TRUE)>>

TargetSegment == <<"<", "t", "a", "r", "g", "e", "t", ">">>

----------------------------------------------------------------------------
\* generate_url_and_params

\* the CephChoices test of the loop, but for the "not params" conjunct
SingleChoiceLiteral(desc) ==
    /\ desc.t = "CephChoices"
    /\ Len(desc.strings) = 1
    /\ desc.req
    /\ ~StartsWith(InstanceStr(desc), <<"-", "-">>)

\* the loop body with the "not params" conjunct left out
CompileStepNoBoundary(st, desc, flavor) ==
    IF desc.t = "CephPrefix"
    THEN [st EXCEPT !.url = @ \o <<"/">> \o desc.prefix]
    ELSE IF SingleChoiceLiteral(desc)
    THEN [st EXCEPT !.url = @ \o <<"/">> \o InstanceStr(desc)]
    ELSE IF flavor = "tellosd" /\ desc.t = "CephOsdName" /\ desc.name = N_target
    THEN [st EXCEPT !.url = @ \o <<"/">> \o TargetSegment]
    ELSE [st EXCEPT !.params = Append(@, desc)]

\* one iteration of "for desc in sig" on st = [url, params]
CompileStep(st, desc, flavor) ==
    IF desc.t = "CephPrefix"
    THEN [st EXCEPT !.url = @ \o <<"/">> \o desc.prefix]
    ELSE IF SingleChoiceLiteral(desc) /\ st.params = <<>>
    THEN [st EXCEPT !.url = @ \o <<"/">> \o InstanceStr(desc)]
    ELSE IF flavor = "tellosd" /\ desc.t = "CephOsdName" /\ desc.name = N_target
    THEN [st EXCEPT !.url = @ \o <<"/">> \o TargetSegment]
    ELSE [st EXCEPT !.params = Append(@, desc)]

\* the signature the loop runs over: tellosd signatures get 'tell <target>'
WorkSig(sig, flavor) == IF flavor = "tellosd" THEN TellSig \o sig ELSE sig

RECURSIVE CompileFrom(_, _, _)
CompileFrom(st, sig, flavor) ==
    IF sig = <<>> THEN st
    ELSE CompileFrom(CompileStep(st, Head(sig), flavor), Tail(sig), flavor)

\* returns [url, params]
generate_url_and_params(sig, flavor) ==
    LET st == CompileFrom([url |-> <<>>, params |-> <<>>],
                           WorkSig(sig, flavor), flavor)
    IN [url |-> baseurl \o st.url, params |-> st.params]

----------------------------------------------------------------------------
\* The route compiler run one descriptor at a time.

CompileDescs ==
    {Prefix(W_osd),
     Choices(N_cmd, TRUE, <<W_set>>),
     Choices(N_n, FALSE, <<W_set>>),
     Choices(N_key, TRUE, <<W_flag>>),
     Choices(N_key, TRUE, <<W_set, W_st>>),
     Param("CephString", N_key, TRUE),
     Param("CephOsdName", N_target, TRUE)}

Flavors == {"mon", "pgid", "tellosd"}

CompileSigs == UNION {[1..n -> CompileDescs] : n \in 1..MaxSigLen}

CompileIdle ==
    /\ cflavor = NONE
    /\ csig = <<>>
    /\ ci = 0
    /\ curl = <<>>
    /\ cparams = <<>>
    /\ cpc = "off"

\* lines 244-250: url = '', params = [], sig extended for tellosd
CompileInit ==
    /\ cflavor \in Flavors
    /\ \E sig \in CompileSigs : csig = WorkSig(sig, cflavor)
    /\ ci = 0
    /\ curl = <<>>
    /\ cparams = <<>>
    /\ cpc = "loop"

\* lines 252-272: one iteration of the loop
CompileDesc ==
    /\ cpc = "loop"
    /\ ci < Len(csig)
    /\ LET st == CompileStep([url |-> curl, params |-> cparams],
                             csig[ci + 1], cflavor)
       IN /\ curl' = st.url
          /\ cparams' = st.params
    /\ ci' = ci + 1
    /\ UNCHANGED <<cflavor, csig, cpc, setupvars, handlervars>>

\* line 274: return glob.baseurl + url, params
CompileReturn ==
    /\ cpc = "loop"
    /\ ci = Len(csig)
    /\ curl' = baseurl \o curl
    /\ cpc' = "returned"
    /\ UNCHANGED <<cflavor, csig, ci, cparams, setupvars, handlervars>>

----------------------------------------------------------------------------
\* Catalog keys "cmd<N>": str(), int() and the ordering sorted() uses.

Digits == <<"0", "1", "2", "3", "4", "5", "6", "7", "8", "9">>

DigitVal(c) == (CHOOSE i \in 1..10 : Digits[i] = c) - 1

\* ord(c) of the characters catalog keys are made of
Ord(c) ==
    CASE c = "c" -> 99
      [] c = "d" -> 100
      [] c = "m" -> 109
      [] OTHER -> 48 + DigitVal(c)

RECURSIVE StrLess(_, _)
\* a < b on Python 2 str: byte-wise, a proper prefix first
StrLess(a, b) ==
    IF b = <<>> THEN FALSE
    ELSE IF a = <<>> THEN TRUE
    ELSE IF a[1] # b[1] THEN Ord(a[1]) < Ord(b[1])
    ELSE StrLess(Tail(a), Tail(b))

\* sorted(keys)[-1]
SortedLast(keys) == CHOOSE k \in keys : \A j \in keys : j = k \/ StrLess(j, k)

RECURSIVE IntOf(_)
\* int(s) of a string of decimal digits
IntOf(s) ==
    IF s = <<>> THEN 0 ELSE 10 * IntOf(SubSeq(s, 1, Len(s) - 1)) + DigitVal(s[Len(s)])

RECURSIVE StrOf(_)
\* str(n), n >= 0
StrOf(n) == IF n < 10 THEN <<Digits[n + 1]>> ELSE StrOf(n \div 10) \o <<Digits[(n % 10) + 1]>>

RECURSIVE ZeroPad(_, _)
ZeroPad(s, width) == IF Len(s) >= width THEN s ELSE ZeroPad(<<"0">> \o s, width)

\* the key "cmd<N>" written with at least width digits
Key(n, width) == W_cmd \o ZeroPad(StrOf(n), width)

\* int(maxkey.replace('cmd', ''))
KeyNum(k) == IntOf(Replace(k, W_cmd))

\* lines 174-176: maxkey = sorted(glob.sigdict.keys())[-1]; osdkey = int(...) + 1
FirstOsdKey(keys) == KeyNum(SortedLast(keys)) + 1

----------------------------------------------------------------------------
\* concise_sig (ceph_argparse): the descriptors' renderings joined by spaces.

DescStr(d) ==
    IF d.t = "CephPrefix" THEN d.prefix
    ELSE IF d.req THEN <<"<">> \o d.name \o <<">">>
    ELSE <<"{", "<">> \o d.name \o <<">", "}">>

concise_sig(sig) == Join([i \in 1..Len(sig) |-> DescStr(sig[i])], <<" ">>)

----------------------------------------------------------------------------
\* The catalogs get_command_descriptions may return.

P_r == <<"r">>
P_w == <<"w">>
P_rw == <<"r", "w">>
P_x == <<"x">>

Cmd(sig, perm, help) == [sig |-> sig, perm |-> perm, help |-> help, module |-> "m"]

MonCmds ==
    {Cmd(<<Prefix(W_osd), Prefix(W_stat)>>, P_r, "stat"),
     Cmd(<<Prefix(W_osd), Prefix(W_stat), Param("CephInt", N_n, FALSE)>>, P_r,
         "statn"),
     Cmd(<<Prefix(W_osd), Prefix(W_stat), Param("CephString", N_key, TRUE)>>, P_w,
         "statk"),
     Cmd(<<Prefix(W_osd), Prefix(W_set), Param("CephString", N_key, TRUE)>>, P_rw,
         "set"),
     Cmd(<<Prefix(W_osd), Prefix(W_st)>>, P_x, "st")}

OsdCmds ==
    {Cmd(<<Prefix(W_ver)>>, P_r, "ver"),
     Cmd(<<Prefix(W_pg), Param("CephPgid", N_pgid, TRUE),
           Choices(N_cmd, TRUE, <<W_query>>)>>, P_r, "query")}

\* the first key number and the digits of a key, of the mon's catalog
KeyStyles == {<<0, 1>>, <<9, 1>>, <<9, 3>>}

MonCatalogs ==
    UNION {[{Key(style[1] + i, style[2]) : i \in 0..(n - 1)} -> MonCmds] :
              n \in 1..MaxMon, style \in KeyStyles}

OsdCatalogs ==
    UNION {[{Key(i, 1) : i \in 0..(n - 1)} -> OsdCmds] : n \in 0..MaxOsd}

\* lines 167-168: glob.sigdict[k]['flavor'] = 'mon'
WithFlavor(cmd, flavor) ==
    [sig |-> cmd.sig, perm |-> cmd.perm, help |-> cmd.help, module |-> cmd.module,
     flavor |-> flavor]

\* lines 178-181
OsdFlavor(v) == IF StartsWith(concise_sig(v.sig), W_pg) THEN "pgid" ELSE "tellosd"

\* d with d[k] = v
DictSet(d, k, v) == [x \in DOMAIN d \cup {k} |-> IF x = k THEN v ELSE d[x]]

EmptyDict == [x \in {} |-> NONE]

----------------------------------------------------------------------------
\* api_setup, lines 196-228: the route table.

GET == "GET"
PUT == "PUT"
DELETE == "DELETE"

METHOD_DICT(k) == IF k = "r" THEN {GET} ELSE {PUT, DELETE}

\* the local variable methods before its first assignment
UNSET == {"<unbound>"}

RECURSIVE PermMethods(_, _, _)
\* lines 202-204: for k in METHOD_DICT.iterkeys(): if k in perm: methods = ...
PermMethods(order, perm, m) ==
    IF order = <<>> THEN m
    ELSE PermMethods(Tail(order), perm,
                     IF HasChar(perm, Head(order)) THEN METHOD_DICT(Head(order))
                     ELSE m)

\* lines 205-211
UrlDict(cmd, params, m) ==
    [paramsig |-> params, help |-> cmd.help, module |-> cmd.module,
     perm |-> cmd.perm, flavor |-> cmd.flavor, methods |-> m]

\* the methods registered for a url already in glob.urls, the union left out
RuleMethodsOwnOnly(m, old) == m

\* lines 219-222: methodset = set(methods) | the methods of every old urldict
RuleMethods(m, old) == m \cup UNION {old[i].methods : i \in 1..Len(old)}

FmtSuffix == <<".", "<", "f", "m", "t", ">">>

\* One iteration of the loop of lines 197-228 on T = [urls, rules, methods];
\* T.methods is the local variable, which survives from one iteration to the
\* next.  The result has crashed set when line 210 reads an unbound methods.
AddUrl(T, cmd, order) ==
    LET up == generate_url_and_params(cmd.sig, cmd.flavor)
        url == up.url
        m == PermMethods(order, cmd.perm, T.methods)
    IN IF m = UNSET
       THEN [urls |-> T.urls, rules |-> T.rules, methods |-> m, crashed |-> TRUE]
       ELSE LET urldict == UrlDict(cmd, up.params, m)
                known == url \in DOMAIN T.urls
                reg == IF known THEN RuleMethods(m, T.urls[url]) ELSE m
                entries == IF known THEN Append(T.urls[url], urldict)
                           ELSE <<urldict>>
            IN [urls |-> DictSet(T.urls, url, entries),
                rules |-> DictSet(DictSet(T.rules, url, reg),
                                  url \o FmtSuffix, reg),
                methods |-> reg,
                crashed |-> FALSE]

----------------------------------------------------------------------------
\* api_setup as a process: spc is its position.

Perms(S) == {f \in [1..Cardinality(S) -> S] : \A i, j \in DOMAIN f : f[i] = f[j] => i = j}

\* the two orders METHOD_DICT.iterkeys() can have
MethodOrders == {<<"r", "w">>, <<"w", "r">>}

SetupIdle ==
    /\ spc = "off"
    /\ sigdict = EmptyDict
    /\ osd_sigdict = EmptyDict
    /\ osdtodo = {}
    /\ osdkey = 0
    /\ todo = {}
    /\ methods = UNSET
    /\ methodorder = <<>>
    /\ urls = EmptyDict
    /\ rules = EmptyDict
    /\ monkeys = {}

\* lines 166-171: both catalogs fetched, the mon's descriptors flavored 'mon'
SetupInit ==
    /\ spc = "maxkey"
    /\ \E mon \in MonCatalogs :
          /\ sigdict = [k \in DOMAIN mon |-> WithFlavor(mon[k], "mon")]
          /\ monkeys = DOMAIN mon
    /\ osd_sigdict \in OsdCatalogs
    /\ osdtodo = DOMAIN osd_sigdict
    /\ osdkey = 0
    /\ todo = {}
    /\ methods = UNSET
    /\ methodorder \in MethodOrders
    /\ urls = EmptyDict
    /\ rules = EmptyDict

\* lines 174-176
ComputeOsdKey ==
    /\ spc = "maxkey"
    /\ osdkey' = FirstOsdKey(DOMAIN sigdict)
    /\ spc' = "merge"
    /\ UNCHANGED <<sigdict, osd_sigdict, osdtodo, todo, methods, methodorder,
                   urls, rules, monkeys, compilevars, handlervars>>

\* lines 177-186 for one item of osd_sigdict.iteritems()
MergeInto(d, v, n) == DictSet(d, W_cmd \o StrOf(n), WithFlavor(v, OsdFlavor(v)))

MergeOsd ==
    /\ spc = "merge"
    /\ \E k \in osdtodo :
          /\ sigdict' = MergeInto(sigdict, osd_sigdict[k], osdkey)
          /\ osdtodo' = osdtodo \ {k}
    /\ osdkey' = osdkey + 1
    /\ UNCHANGED <<spc, osd_sigdict, todo, methods, methodorder, urls, rules,
                   monkeys, compilevars, handlervars>>

\* line 196: glob.urls = {}
StartUrls ==
    /\ spc = "merge"
    /\ osdtodo = {}
    /\ urls' = EmptyDict
    /\ todo' = DOMAIN sigdict
    /\ spc' = "urls"
    /\ UNCHANGED <<sigdict, osd_sigdict, osdtodo, osdkey, methods, methodorder,
                   rules, monkeys, compilevars, handlervars>>

\* lines 197-228 for one item of glob.sigdict.iteritems()
AddUrlRule ==
    /\ spc = "urls"
    /\ \E k \in todo :
          LET T == AddUrl([urls |-> urls, rules |-> rules, methods |-> methods],
                          sigdict[k], methodorder)
          IN /\ todo' = todo \ {k}
             /\ urls' = T.urls
             /\ rules' = T.rules
             /\ methods' = T.methods
             /\ spc' = IF T.crashed THEN "crashed" ELSE spc
    /\ UNCHANGED <<sigdict, osd_sigdict, osdtodo, osdkey, methodorder, monkeys,
                   compilevars, handlervars>>

\* lines 230-234: the catch-all rule; api_setup returns
SetupReturn ==
    /\ spc = "urls"
    /\ todo = {}
    /\ spc' = "serving"
    /\ UNCHANGED <<sigdict, osd_sigdict, osdtodo, osdkey, todo, methods,
                   methodorder, urls, rules, monkeys, compilevars, handlervars>>

----------------------------------------------------------------------------
\* api_setup as a function of the catalogs and of the orders in which the
\* dictionaries are iterated: the state the handler serves from.

RECURSIVE MergeAll(_, _, _, _)
\* lines 177-186
MergeAll(d, osd, order, n) ==
    IF order = <<>> THEN d
    ELSE MergeAll(MergeInto(d, osd[Head(order)], n), osd, Tail(order), n + 1)

RECURSIVE AddAll(_, _, _, _)
\* lines 197-228
AddAll(T, d, order, morder) ==
    IF order = <<>> \/ T.crashed THEN T
    ELSE AddAll(AddUrl(T, d[Head(order)], morder), d, Tail(order), morder)

MergedSigdict(mon, osd, osdorder) ==
    MergeAll([k \in DOMAIN mon |-> WithFlavor(mon[k], "mon")], osd, osdorder,
             FirstOsdKey(DOMAIN mon))

RouteTable(d, order, morder) ==
    AddAll([urls |-> EmptyDict, rules |-> EmptyDict, methods |-> UNSET,
            crashed |-> FALSE], d, order, morder)

----------------------------------------------------------------------------
\* The collaborators of the handler (ceph_argparse).

V_1 == <<"1">>
V_x == <<"x">>
V_pg == <<"1", ".", "0">>

IsDigits(v) == v # <<>> /\ \A i \in 1..Len(v) : \E j \in 1..10 : Digits[j] = v[i]

\* CephOsdName().valid(s): "osd.<id>" or a bare id
OsdNameValid(s) ==
    \/ IsDigits(s)
    \/ StartsWith(s, W_osd \o <<".">>) /\ IsDigits(From(s, 4))

OsdNameId(s) == IF IsDigits(s) THEN s ELSE From(s, 4)

\* the value v converts to the type of descriptor d
TypeValid(d, v) ==
    CASE d.t = "CephInt" -> IsDigits(v)
      [] d.t = "CephPgid" -> HasChar(v, ".")
      [] d.t = "CephOsdName" -> OsdNameValid(v)
      [] d.t = "CephChoices" -> \E i \in 1..Len(d.strings) : d.strings[i] = v
      [] OTHER -> TRUE

SigNames(paramsig) == {paramsig[i].name : i \in 1..Len(paramsig)}

\* validate(args, paramsig): required parameters present, every value
\* convertible, no parameter the signature does not name.  err is str(e).
validate(args, paramsig) ==
    LET missing == {i \in 1..Len(paramsig) :
                       paramsig[i].req /\ paramsig[i].name \notin DOMAIN args}
        bad == {i \in 1..Len(paramsig) :
                   /\ paramsig[i].name \in DOMAIN args
                   /\ ~TypeValid(paramsig[i], args[paramsig[i].name])}
        extra == DOMAIN args \ SigNames(paramsig)
    IN IF missing # {}
       THEN [ok |-> FALSE, err |-> <<"missing", paramsig[CHOOSE i \in missing : \A j \in missing : i <= j].name>>]
       ELSE IF bad # {}
       THEN [ok |-> FALSE, err |-> <<"invalid", paramsig[CHOOSE i \in bad : \A j \in bad : i <= j].name>>]
       ELSE IF extra # {}
       THEN [ok |-> FALSE, err |-> <<"unused", CHOOSE n \in extra : TRUE>>]
       ELSE [ok |-> TRUE, err |-> <<>>]

----------------------------------------------------------------------------
\* show_human_help

PgPlaceholder == <<"p", "g", "/", "<", "p", "g", "i", "d", ">", "/">>
TellPlaceholder == <<"t", "e", "l", "l", "/", "<", "o", "s", "d", "i", "d", ">", "/">>

\* lines 307-311
HelpConcise(cmdsig) ==
    LET c0 == concise_sig(cmdsig.sig)
        c1 == IF cmdsig.flavor = "pgid" THEN PgPlaceholder \o c0 ELSE c0
    IN IF cmdsig.flavor = "tellosd" THEN TellPlaceholder \o c1 ELSE c1

\* line 304: permmap, a KeyError for any other permission string
PermMapKeys == {P_r, P_rw}
permmap(perm) == IF perm = P_r THEN GET ELSE PUT

\* the catalog keys of the commands a help table lists for pfx (line 312)
HelpMatches(d, pfx) == {k \in DOMAIN d : StartsWith(HelpConcise(d[k]), pfx)}

\* a row of the table: the command, and the method of line 320
HelpRow(cmdsig) ==
    [sig |-> cmdsig.sig, flavor |-> cmdsig.flavor, help |-> cmdsig.help,
     method |-> permmap(cmdsig.perm)]

\* show_human_help(prefix): kind "empty" is the return of '', "KeyError" the
\* exception of line 320, "table" the document, its rows by catalog key
show_human_help(d, pfx) ==
    LET hits == HelpMatches(d, pfx)
    IN IF hits = {} THEN [kind |-> "empty", rows |-> EmptyDict]
       ELSE IF \E k \in hits : d[k].perm \notin PermMapKeys
       THEN [kind |-> "KeyError", rows |-> EmptyDict]
       ELSE [kind |-> "table", rows |-> [k \in hits |-> HelpRow(d[k])]]

----------------------------------------------------------------------------
\* make_response and the responses of the handler.

IsJson(f) == f \in {"json", "json-pretty"}

Response(code, kind, msg, out, rows) ==
    [code |-> code, kind |-> kind, msg |-> msg, out |-> out, rows |-> rows]

NoResponse == Response(0, "", <<>>, "", EmptyDict)

\* make_response(fmt, output, statusmsg, errorcode); output is "" (empty),
\* "json" (text that decodes as JSON) or "text" (text that does not)
make_response(f, output, statusmsg, errorcode) ==
    IF IsJson(f) /\ output = "text"
    THEN Response(500, "Error decoding JSON", <<>>, output, EmptyDict)
    ELSE Response(errorcode, "make_response", statusmsg, output, EmptyDict)

\* lines 433-439, with 404 for an endpoint no command matches
UnknownEndpointNotFound(f, e, helptext) ==
    IF helptext.kind = "KeyError"
    THEN Response(500, "KeyError", <<>>, "", EmptyDict)
    ELSE IF helptext.kind = "table"
    THEN Response(400, "helptext", <<>>, "", helptext.rows)
    ELSE make_response(f, "", <<"Invalid endpoint", e>>, 404)

\* lines 433-439: the response for an endpoint that is not in glob.urls
UnknownEndpoint(f, e, helptext) ==
    IF helptext.kind = "KeyError"
    THEN Response(500, "KeyError", <<>>, "", EmptyDict)
    ELSE IF helptext.kind = "table"
    THEN Response(400, "helptext", <<>>, "", helptext.rows)
    ELSE make_response(f, "", <<"Invalid endpoint", e>>, 400)

----------------------------------------------------------------------------
\* handler, lines 389-429: endpoint, format and target of a request r.

\* the endpoint name of the catch-all rule, '/<path:catchall_path>'
PathEndpoint ==
    <<"/", "<", "p", "a", "t", "h", ":">> \o <<"c", "a", "t", "c", "h", "a", "l", "l">>
        \o <<"_", "p", "a", "t", "h", ">">>

Endpoint(r) ==
    LET ep0 == IF r.catchall_path # <<>> THEN r.catchall_path ELSE r.endpoint
        ep1 == Replace(ep0, FmtSuffix)
    IN IF ep1[1] # "/" THEN <<"/">> \o ep1 ELSE ep1

\* lines 402-406
ResolveFormat(r) ==
    IF r.fmtarg # "" THEN r.fmtarg
    ELSE IF "application/json" \in r.accept THEN "json"
    ELSE IF "application/xml" \in r.accept THEN "xml"
    ELSE ""

RelEp(e) == From(e, Len(baseurl) + 1)

Words(parts) == Strip(Join(parts, <<" ">>))

NoTarget == [role |-> "", id |-> <<>>]

\* lines 408-429: [valid, reason, prefix, pgid, target]
ResolveTarget(r, rel_ep) ==
    LET parts == Split(rel_ep, "/")
        named == r.targetarg # <<>> /\ OsdNameValid(r.targetarg)
        pfx == IF named THEN Words(Drop(parts, 2)) ELSE <<>>
        ispg == r.targetarg = <<>> /\ rel_ep = W_pg /\ N_pgid \in DOMAIN r.args
    IN [valid |-> r.targetarg = <<>> \/ named,
        reason |-> IF r.targetarg = <<>> \/ named THEN <<>>
                   ELSE <<"invalid osd name", r.targetarg>>,
        prefix |-> IF pfx = <<>> THEN Words(parts) ELSE pfx,
        pgid |-> IF ispg THEN r.args[N_pgid] ELSE <<>>,
        target |-> IF named THEN [role |-> "osd", id |-> OsdNameId(r.targetarg)]
                   ELSE IF r.targetarg # <<>>
                   THEN [role |-> "unparsed", id |-> r.targetarg]
                   ELSE IF ispg THEN [role |-> "pg", id |-> r.args[N_pgid]]
                   ELSE NoTarget]

----------------------------------------------------------------------------
\* handler, lines 443-477: one urldict of the loop.

\* the loop body with a failed validation taken for a match
TryEntryIgnoreInvalid(urldict, method, args) ==
    IF method \notin urldict.methods THEN [kind |-> "continue", err |-> <<>>]
    ELSE IF N_help \in DOMAIN args THEN [kind |-> "help", err |-> <<>>]
    ELSE [kind |-> "found", err |-> <<>>]

\* the loop body without the method test of line 444
TryEntryAnyMethod(urldict, method, args) ==
    IF N_help \in DOMAIN args THEN [kind |-> "help", err |-> <<>>]
    ELSE IF urldict.paramsig # <<>>
    THEN LET v == validate(args, urldict.paramsig)
         IN IF v.ok THEN [kind |-> "found", err |-> <<>>]
            ELSE [kind |-> "continue", err |-> <<v.err>>]
    ELSE IF DOMAIN args # {} THEN [kind |-> "continue", err |-> <<>>]
    ELSE [kind |-> "found", err |-> <<>>]

\* the loop body without the test of line 473
TryEntryExtraArgs(urldict, method, args) ==
    IF method \notin urldict.methods THEN [kind |-> "continue", err |-> <<>>]
    ELSE IF N_help \in DOMAIN args THEN [kind |-> "help", err |-> <<>>]
    ELSE IF urldict.paramsig # <<>>
    THEN LET v == validate(args, urldict.paramsig)
         IN IF v.ok THEN [kind |-> "found", err |-> <<>>]
            ELSE [kind |-> "continue", err |-> <<v.err>>]
    ELSE [kind |-> "found", err |-> <<>>]

\* kind "continue" goes on to the next urldict, err what is added to exc
TryEntry(urldict, method, args) ==
    IF method \notin urldict.methods THEN [kind |-> "continue", err |-> <<>>]
    ELSE IF N_help \in DOMAIN args THEN [kind |-> "help", err |-> <<>>]
    ELSE IF urldict.paramsig # <<>>
    THEN LET v == validate(args, urldict.paramsig)
         IN IF v.ok THEN [kind |-> "found", err |-> <<>>]
            ELSE [kind |-> "continue", err |-> <<v.err>>]
    ELSE IF DOMAIN args # {} THEN [kind |-> "continue", err |-> <<>>]
    ELSE [kind |-> "found", err |-> <<>>]

----------------------------------------------------------------------------
\* The requests Flask hands to the handler.

ArgNames == {N_key, N_n, N_pgid, N_cmd, N_help}

ArgValues(n) ==
    CASE n = N_key -> {V_x}
      [] n = N_n -> {V_1, V_x}
      [] n = N_pgid -> {V_pg}
      [] n = N_cmd -> {W_query}
      [] OTHER -> {<<>>}

\* flask.request.args: at most MaxArgs parameters, one value each
ArgSets ==
    UNION {{a \in [S -> UNION {ArgValues(n) : n \in S}] :
               \A n \in S : a[n] \in ArgValues(n)} :
           S \in {S \in SUBSET ArgNames : Cardinality(S) <= MaxArgs}}

Targets == {<<"0">>, <<"o", "s", "d", ".", "1">>, V_x}

Contains(s, pat) ==
    \E i \in 1..Len(s) : i + Len(pat) - 1 <= Len(s) /\ SubSeq(s, i, i + Len(pat) - 1) = pat

EndsWith(s, pat) ==
    Len(pat) <= Len(s) /\ SubSeq(s, Len(s) - Len(pat) + 1, Len(s)) = pat

\* the fmt argument of a '.<fmt>' rule, the Accept header of a plain one
FormatChoices(u) ==
    IF EndsWith(u, FmtSuffix) THEN {[fmtarg |-> "xml", accept |-> {}]}
    ELSE {[fmtarg |-> "", accept |-> {}],
          [fmtarg |-> "", accept |-> {"application/json"}]}

Base == Tail(baseurl)

CatchallPaths ==
    {Base,
     Base \o <<"/">> \o W_osd \o <<"/">> \o W_st,
     Base \o <<"/">> \o W_osd \o <<"/", "s", "e">>,
     Base \o <<"/">> \o W_osd \o <<"/", "x">>,
     Base \o <<"/">> \o W_osd \o <<"/">> \o W_stat,
     Base \o <<"/">> \o W_osd \o <<"/">> \o W_stat \o <<"/">>,
     Base \o <<"/", "t">>,
     <<"x", "/">> \o W_osd}

Request(cp, e, f, t, m, a) ==
    [catchall_path |-> cp, endpoint |-> e, fmtarg |-> f.fmtarg,
     accept |-> f.accept, targetarg |-> t, method |-> m, args |-> a]

NoRequest == Request(<<>>, <<>>, [fmtarg |-> "", accept |-> {}], <<>>, "", EmptyDict)

----------------------------------------------------------------------------
\* handler as a process: hpc is its position.

NoArgdict ==
    [args |-> EmptyDict, format |-> "", module |-> "", perm |-> <<>>,
     pgid |-> <<>>]

NoSent == [prefix |-> <<>>, target |-> NoTarget, argdict |-> NoArgdict]

NoReply == [ret |-> 0, outbuf |-> "", outs |-> ""]

HandlerIdle ==
    /\ hpc = "idle"
    /\ req = NoRequest
    /\ ep = <<>>
    /\ fmt = ""
    /\ valid = TRUE
    /\ reason = <<>>
    /\ prefix = <<>>
    /\ pgid = <<>>
    /\ target = NoTarget
    /\ ui = 0
    /\ found = <<>>
    /\ exc = <<>>
    /\ argdict = NoArgdict
    /\ resp = NoResponse
    /\ submits = 0
    /\ sent = NoSent
    /\ reply = NoReply
    /\ prevfound = <<>>
    /\ repeated = FALSE

\* lines 389-429 for the request r
Enter(r) ==
    LET e == Endpoint(r)
        inbase == StartsWith(e, baseurl)
        rt == ResolveTarget(r, RelEp(e))
    IN /\ req' = r
       /\ ep' = e
       /\ ui' = 0
       /\ found' = <<>>
       /\ exc' = <<>>
       /\ argdict' = NoArgdict
       /\ submits' = 0
       /\ sent' = NoSent
       /\ reply' = NoReply
       /\ IF inbase
          THEN /\ fmt' = ResolveFormat(r)
               /\ valid' = rt.valid
               /\ reason' = rt.reason
               /\ prefix' = rt.prefix
               /\ pgid' = rt.pgid
               /\ target' = rt.target
               /\ resp' = NoResponse
               /\ hpc' = "match"
          ELSE /\ fmt' = r.fmtarg
               /\ valid' = TRUE
               /\ reason' = <<>>
               /\ prefix' = <<>>
               /\ pgid' = <<>>
               /\ target' = NoTarget
               /\ resp' = make_response(r.fmtarg, "", <<"Page not found">>, 404)
               /\ hpc' = "done"

\* a request that matches one of the rules of lines 226-228
ReceiveRule ==
    /\ spc = "serving"
    /\ hpc = "idle"
    /\ \E u \in DOMAIN rules :
       \E m \in rules[u], a \in ArgSets, f \in FormatChoices(u) :
       \E t \in IF Contains(u, TargetSegment) THEN Targets ELSE {<<>>} :
          Enter(Request(<<>>, u, f, t, m, a))
    /\ prevfound' = <<>>
    /\ repeated' = FALSE
    /\ UNCHANGED <<compilevars, setupvars>>

\* a request that matches the catch-all rule of lines 232-233 only
ReceiveCatchall ==
    /\ spc = "serving"
    /\ hpc = "idle"
    /\ \E p \in CatchallPaths, m \in {GET, PUT}, a \in ArgSets :
       \E f \in FormatChoices(<<>>) :
          /\ <<"/">> \o p \in DOMAIN rules => m \notin rules[<<"/">> \o p]
          /\ Enter(Request(p, PathEndpoint, f, <<>>, m, a))
    /\ prevfound' = <<>>
    /\ repeated' = FALSE
    /\ UNCHANGED <<compilevars, setupvars>>

\* the same request sent once more
Repeat ==
    /\ hpc = "done"
    /\ ~repeated
    /\ Enter(req)
    /\ prevfound' = found
    /\ repeated' = TRUE
    /\ UNCHANGED <<compilevars, setupvars>>

\* lines 431-439: the endpoint is not in glob.urls
Fallback ==
    /\ hpc = "match"
    /\ ep \notin DOMAIN urls
    /\ resp' = UnknownEndpoint(fmt, ep, show_human_help(sigdict, prefix))
    /\ hpc' = "done"
    /\ UNCHANGED <<req, ep, fmt, valid, reason, prefix, pgid, target, ui, found,
                   exc, argdict, submits, sent, reply, prevfound, repeated,
                   compilevars, setupvars>>

\* lines 441-443: the loop over glob.urls[ep] starts
StartLoop ==
    /\ hpc = "match"
    /\ ep \in DOMAIN urls
    /\ ui' = 1
    /\ hpc' = "loop"
    /\ UNCHANGED <<req, ep, fmt, valid, reason, prefix, pgid, target, found, exc,
                   argdict, resp, submits, sent, reply, prevfound, repeated,
                   compilevars, setupvars>>

\* lines 450-453: '{0}: {1}'.format(prefix + concise_sig(paramsig), help)
HelpResponse(pfx, urldict) ==
    Response(200, "help", <<pfx \o concise_sig(urldict.paramsig), urldict.help>>,
             "", EmptyDict)

\* lines 443-477: one urldict
LoopStep ==
    /\ hpc = "loop"
    /\ ui <= Len(urls[ep])
    /\ LET urldict == urls[ep][ui]
           o == TryEntry(urldict, req.method, req.args)
       IN /\ ui' = ui + 1
          /\ exc' = exc \o o.err
          /\ found' = IF o.kind = "found" THEN <<urldict>> ELSE found
          /\ argdict' = IF o.kind = "found"
                        THEN [argdict EXCEPT !.args = req.args]
                        ELSE argdict
          /\ resp' = IF o.kind = "help" THEN HelpResponse(prefix, urldict)
                     ELSE resp
          /\ hpc' = CASE o.kind = "found" -> "execute"
                      [] o.kind = "help" -> "done"
                      [] OTHER -> "loop"
    /\ UNCHANGED <<req, ep, fmt, valid, reason, prefix, pgid, target, submits,
                   sent, reply, prevfound, repeated, compilevars, setupvars>>

\* lines 479-480: no urldict was found
NoCandidate ==
    /\ hpc = "loop"
    /\ ui > Len(urls[ep])
    /\ resp' = make_response(fmt, "", <<"validation", exc>>, 400)
    /\ hpc' = "done"
    /\ UNCHANGED <<req, ep, fmt, valid, reason, prefix, pgid, target, ui, found,
                   exc, argdict, submits, sent, reply, prevfound, repeated,
                   compilevars, setupvars>>

\* what json_command may return: ret, outbuf, outs
Outcomes ==
    {[ret |-> 0, outbuf |-> "json", outs |-> ""],
     [ret |-> 0, outbuf |-> "text", outs |-> "done"],
     [ret |-> -22, outbuf |-> "", outs |-> "EINVAL"]}

\* lines 495-498
CommandResponse(f, o) ==
    IF o.ret # 0
    THEN make_response(f, "", <<"Error", o.outs, o.ret>>, 400)
    ELSE make_response(f, o.outbuf, <<IF o.outs # "" THEN o.outs ELSE "OK">>, 200)

\* lines 482-504: the command is sent and answered
Execute ==
    /\ hpc = "execute"
    /\ LET ad == [args |-> argdict.args,
                  format |-> IF fmt # "" THEN fmt ELSE "plain",
                  module |-> found[1].module,
                  perm |-> found[1].perm,
                  pgid |-> pgid]
           tg == IF target = NoTarget THEN [role |-> "mon", id |-> <<>>] ELSE target
       IN /\ argdict' = ad
          /\ target' = tg
          /\ sent' = [prefix |-> prefix, target |-> tg, argdict |-> ad]
    /\ submits' = submits + 1
    /\ \E o \in Outcomes :
          /\ reply' = o
          /\ resp' = CommandResponse(fmt, o)
    /\ hpc' = "done"
    /\ UNCHANGED <<req, ep, fmt, valid, reason, prefix, pgid, ui, found, exc,
                   prevfound, repeated, compilevars, setupvars>>

\* the response is sent; the request's state is dropped
Respond ==
    /\ hpc = "done"
    /\ hpc' = "idle"
    /\ req' = NoRequest
    /\ ep' = <<>>
    /\ fmt' = ""
    /\ valid' = TRUE
    /\ reason' = <<>>
    /\ prefix' = <<>>
    /\ pgid' = <<>>
    /\ target' = NoTarget
    /\ ui' = 0
    /\ found' = <<>>
    /\ exc' = <<>>
    /\ argdict' = NoArgdict
    /\ resp' = NoResponse
    /\ submits' = 0
    /\ sent' = NoSent
    /\ reply' = NoReply
    /\ prevfound' = <<>>
    /\ repeated' = FALSE
    /\ UNCHANGED <<compilevars, setupvars>>

----------------------------------------------------------------------------
\* The catalog the handler is run against.

ServedMon ==
    [k \in {Key(i, 3) : i \in 0..3} |->
        CASE k = Key(0, 3) ->
                 Cmd(<<Prefix(W_osd), Prefix(W_stat)>>, P_r, "stat")
          [] k = Key(1, 3) ->
                 Cmd(<<Prefix(W_osd), Prefix(W_stat),
                       Param("CephInt", N_n, FALSE)>>, P_r, "statn")
          [] k = Key(2, 3) ->
                 Cmd(<<Prefix(W_osd), Prefix(W_stat),
                       Param("CephString", N_key, TRUE)>>, P_w, "statk")
          [] OTHER ->
                 Cmd(<<Prefix(W_osd), Prefix(W_set),
                       Param("CephString", N_key, TRUE)>>, P_rw, "set")]

ServedOsd ==
    [k \in {Key(i, 1) : i \in 0..1} |->
        IF k = Key(0, 1) THEN Cmd(<<Prefix(W_ver)>>, P_r, "ver")
        ELSE Cmd(<<Prefix(W_pg), Param("CephPgid", N_pgid, TRUE),
                   Choices(N_cmd, TRUE, <<W_query>>)>>, P_r, "query")]

\* api_setup has returned
Served ==
    /\ spc = "serving"
    /\ monkeys = DOMAIN ServedMon
    /\ osd_sigdict = ServedOsd
    /\ osdtodo = {}
    /\ todo = {}
    /\ osdkey = FirstOsdKey(monkeys) + Cardinality(DOMAIN osd_sigdict)
    /\ methodorder \in MethodOrders
    /\ \E osdorder \in Perms(DOMAIN ServedOsd) :
          sigdict = MergedSigdict(ServedMon, ServedOsd, osdorder)
    /\ \E order \in Perms(DOMAIN sigdict) :
          LET T == RouteTable(sigdict, order, methodorder)
          IN /\ ~T.crashed
             /\ urls = T.urls
             /\ rules = T.rules
             /\ methods = T.methods

----------------------------------------------------------------------------
\* Specifications.

\* the route compiler, one descriptor at a time
InitCompile == CompileInit /\ SetupIdle /\ HandlerIdle
NextCompile == CompileDesc \/ CompileReturn
SpecCompile == InitCompile /\ [][NextCompile]_vars

\* the catalog build
InitSetup == CompileIdle /\ SetupInit /\ HandlerIdle
NextSetup == ComputeOsdKey \/ MergeOsd \/ StartUrls \/ AddUrlRule \/ SetupReturn
SpecSetup == InitSetup /\ [][NextSetup]_vars

\* the handler, serving the catalog built
Init == CompileIdle /\ Served /\ HandlerIdle
Next ==
    \/ ReceiveRule
    \/ ReceiveCatchall
    \/ Repeat
    \/ Fallback
    \/ StartLoop
    \/ LoopStep
    \/ NoCandidate
    \/ Execute
    \/ Respond
Spec == Init /\ [][Next]_vars

----------------------------------------------------------------------------
\* Route compilation (SpecCompile).

RECURSIVE IsSubseq(_, _)
\* a is b with some elements left out
IsSubseq(a, b) ==
    IF a = <<>> THEN TRUE
    ELSE IF b = <<>> THEN FALSE
    ELSE IF Head(a) = Head(b) THEN IsSubseq(Tail(a), Tail(b))
    ELSE IsSubseq(a, Tail(b))

\* C8: once a descriptor has been appended to the residual parameters, every
\* later single-choice required non-flag CephChoices descriptor is appended to
\* the parameters too and the URL is left as it is; the parameters are, in
\* signature order, descriptors of the signature read so far.
T_C8 ==
    /\ [](IsSubseq(cparams, SubSeq(csig, 1, ci)))
    /\ [][(/\ cpc = "loop"
           /\ ci < Len(csig)
           /\ cparams # <<>>
           /\ SingleChoiceLiteral(csig[ci + 1]))
          => (/\ cparams' = Append(cparams, csig[ci + 1])
              /\ curl' = curl)]_vars

\* a single-choice literal has just been read after a parameter, and is the
\* last of the parameters
W_C8 ==
    /\ cpc = "loop"
    /\ ci >= 2
    /\ Len(cparams) >= 2
    /\ SingleChoiceLiteral(csig[ci])
    /\ cparams[Len(cparams)] = csig[ci]
    /\ cparams[Len(cparams) - 1] = csig[ci - 1]

----------------------------------------------------------------------------
\* The catalog build (SpecSetup).

\* the methods a permission string stands for
PermImplied(perm) ==
    (IF HasChar(perm, "r") THEN {GET} ELSE {})
        \cup (IF HasChar(perm, "w") THEN {PUT, DELETE} ELSE {})

\* C3: the methods of every entry of the route table are the ones its own
\* permission string stands for: GET exactly with "r", PUT and DELETE exactly
\* with "w".
CE_C3 ==
    \A u \in DOMAIN urls : \A i \in 1..Len(urls[u]) :
        urls[u][i].methods = PermImplied(urls[u][i].perm)

EntryMethods(u) == UNION {urls[u][i].methods : i \in 1..Len(urls[u])}

EntryPerms(u) == {urls[u][i].perm : i \in 1..Len(urls[u])}

\* C4: at every step of the build every url of the route table has an entry,
\* and the methods registered for it are the union of its entries' methods;
\* entries with permissions "r" and "w" leave it registered for GET, PUT and
\* DELETE.
T_C4 ==
    \A u \in DOMAIN urls :
        /\ Len(urls[u]) >= 1
        /\ u \in DOMAIN rules
        /\ rules[u] = EntryMethods(u)
        /\ rules[u \o FmtSuffix] = EntryMethods(u)
        /\ EntryPerms(u) = {P_r, P_w} => rules[u] = {GET, PUT, DELETE}

\* the build has ended with a url that holds an "r" and a "w" entry
W_C4 ==
    /\ spc = "serving"
    /\ \E u \in DOMAIN urls :
          /\ Len(urls[u]) = 2
          /\ EntryPerms(u) = {P_r, P_w}
          /\ rules[u] = {GET, PUT, DELETE}

\* the key with the greatest number
MaxKeyNumeric(keys) == CHOOSE k \in keys : \A j \in keys : KeyNum(j) <= KeyNum(k)

\* C7: after the merge the catalog holds every mon and every osd descriptor,
\* and the osd descriptors were numbered from the numerically greatest mon
\* key plus one on.
CE_C7 ==
    spc \in {"urls", "serving", "crashed"} =>
        /\ Cardinality(DOMAIN sigdict)
              = Cardinality(monkeys) + Cardinality(DOMAIN osd_sigdict)
        /\ DOMAIN osd_sigdict # {} =>
              osdkey - Cardinality(DOMAIN osd_sigdict)
                  = KeyNum(MaxKeyNumeric(monkeys)) + 1

----------------------------------------------------------------------------
\* The handler (Spec).

Answered == hpc = "done"

Selected == hpc \in {"execute", "done"} /\ found # <<>>

Malformed == req.targetarg # <<>> /\ ~OsdNameValid(req.targetarg)

\* C1: a request to a tell route whose target does not parse as an osd name
\* (and that does not ask for help) is answered 400 with the parse error, and
\* no urldict is found and no command sent for it.
CE_C1 ==
    (Answered /\ Malformed /\ N_help \notin DOMAIN req.args) =>
        /\ resp.code = 400
        /\ resp.msg = reason
        /\ found = <<>>
        /\ submits = 0

AllOptional(paramsig) == \A i \in 1..Len(paramsig) : ~paramsig[i].req

\* C2 as stated: a request without query parameters is matched only to an
\* entry with an empty paramsig, and an entry with an empty paramsig only to a
\* request without query parameters.
CE_C2 ==
    Selected =>
        /\ DOMAIN req.args = {} => found[1].paramsig = <<>>
        /\ found[1].paramsig = <<>> => DOMAIN req.args = {}

\* C2: a request without query parameters is matched only to an entry whose
\* paramsig has no required parameter, and an entry with an empty paramsig
\* only to a request without query parameters.
T_C2 ==
    Selected =>
        /\ DOMAIN req.args = {} => AllOptional(found[1].paramsig)
        /\ found[1].paramsig = <<>> => DOMAIN req.args = {}

\* a request without query parameters matched to an entry whose paramsig is
\* not empty
W_C2 ==
    /\ Selected
    /\ DOMAIN req.args = {}
    /\ found[1].paramsig # <<>>

Unknown ==
    /\ Answered
    /\ StartsWith(ep, baseurl)
    /\ ep \notin DOMAIN urls

CE_C6 ==
    (Unknown /\ HelpMatches(sigdict, prefix) # {}) =>
        /\ resp.code = 400
        /\ resp.kind = "helptext"
        /\ DOMAIN resp.rows = HelpMatches(sigdict, prefix)
        /\ \A k \in DOMAIN resp.rows :
              resp.rows[k].method \in PermImplied(sigdict[k].perm)

\* the indices of the entries a request may be matched to
Candidates(entries, method, args) ==
    {i \in 1..Len(entries) :
        /\ method \in entries[i].methods
        /\ validate(args, entries[i].paramsig).ok}

First(S) == CHOOSE i \in S : \A j \in S : i <= j

\* C9: the urldict found for a request to a known url without the help flag is
\* the first one, in the order of glob.urls[ep], that has the request's method
\* and whose paramsig validates the request's parameters, and none if there is
\* no such one; the same request sent again finds the same urldict.
T_C9 ==
    (/\ hpc \in {"execute", "done"}
     /\ ep \in DOMAIN urls
     /\ N_help \notin DOMAIN req.args) =>
        LET C == Candidates(urls[ep], req.method, req.args)
        IN /\ C = {} => found = <<>>
           /\ C # {} => found = <<urls[ep][First(C)]>> /\ ui = First(C) + 1
           /\ found # <<>> => req.method \in found[1].methods
           /\ repeated => found = prevfound

\* the same request sent twice has found an urldict that is not the first one
\* at its url
W_C9 ==
    /\ Selected
    /\ repeated
    /\ ui > 2
    /\ found = prevfound

\* C10: a request sends at most one command, and only once an urldict with
\* the request's method has validated the parameters; a request that no
\* urldict was found for sends none, and is answered 400 with the validation
\* messages if the loop ended without one; a command that returns a non-zero
\* status is answered 400 with its message and status.
T_C10 ==
    /\ submits <= 1
    /\ submits = 1 =>
          /\ Answered
          /\ found # <<>>
          /\ req.method \in found[1].methods
          /\ validate(req.args, found[1].paramsig).ok
          /\ sent.argdict.args = req.args
    /\ (Answered /\ found = <<>>) => submits = 0
    /\ (Answered /\ found # <<>>) => submits = 1
    /\ (Answered /\ ep \in DOMAIN urls /\ found = <<>>
           /\ N_help \notin DOMAIN req.args) =>
          /\ resp.code = 400
          /\ resp.msg = <<"validation", exc>>
    /\ (Answered /\ submits = 1 /\ reply.ret # 0) =>
          /\ resp.code = 400
          /\ resp.msg = <<"Error", reply.outs, reply.ret>>

\* a command was sent and returned a non-zero status
W_C10 ==
    /\ Answered
    /\ submits = 1
    /\ reply.ret # 0
    /\ resp.code = 400

====
